---- MODULE Spec2Model ----
(***************************************************************************)
(* The MCP stdio protocol engine of the three tool servers                 *)
(*   itick   (src/unnamed/part_001, class iTickMCPServer)                  *)
(*   hk-gov  (src/unnamed/part_002, class HKGovMCPServer)                  *)
(*   hko     (src/tools/openrouter-image.js, class HKOMCPServer)           *)
(* Each server's run() installs an async 'data' listener and an 'end'      *)
(* listener on stdin.  The 'data' listener appends the chunk to a buffer,  *)
(* splits it on newline and handles the complete lines one after the       *)
(* other; it suspends only while a tools/call awaits its upstream request. *)
(* While it is suspended the event loop delivers further 'data' events and *)
(* the 'end' event, and it resumes when the upstream answers or times out. *)
(*                                                                         *)
(* The input text is a sequence of characters.  A character is "\n", " ",  *)
(* the non-JSON character "x", or a token that stands for the text of one  *)
(* complete JSON value (JSONValue gives the value it denotes).             *)
(*                                                                         *)
(* The module also holds the DAV server (src/tools/openclaw-dav-server.js): *)
(* its request handler with checkAuth, its routes, and the bodies of the   *)
(* POST /api/calendars requests arriving chunk by chunk.                   *)
(***************************************************************************)
EXTENDS Integers, Sequences, FiniteSets, TLC

\* Bound of the model: the number of characters received on stdin.
MaxInput == 4

Servers == {"itick", "hk-gov", "hko"}

SERVER_NAME(s) ==
  CASE s = "itick" -> "itick-mcp-server"
    [] s = "hk-gov" -> "hk-gov-mcp-server"
    [] s = "hko" -> "hko-mcp-server"

MCP_PROTOCOL_VERSION == "2024-11-05"

\* The registries: the ordered tool descriptors of defineTools(), each kept as
\* its name.
iTick_defineTools ==
  << "itick_search_symbol", "itick_get_price", "itick_get_kline",
     "itick_get_quote", "itick_get_depth", "itick_get_trades" >>

HKGov_defineTools ==
  << "hko_local_forecast", "hko_9day_forecast", "hko_current_weather",
     "hko_weather_warnings", "hko_special_tips", "hko_earthquake_info",
     "td_traffic_speed", "ha_ae_waiting_time", "kmb_get_routes",
     "kmb_get_stops", "kmb_get_eta" >>

HKO_defineTools ==
  << "hko_local_forecast", "hko_9day_forecast", "hko_current_weather",
     "hko_weather_warnings", "hko_special_tips", "hko_earthquake_info",
     "hko_tsunami_info", "hko_all_weather" >>

\* constructor: this.tools = this.defineTools()
defineTools(s) ==
  CASE s = "itick" -> iTick_defineTools
    [] s = "hk-gov" -> HKGov_defineTools
    [] s = "hko" -> HKO_defineTools

\* The case labels of the switch of each handleToolCall.
iTick_cases ==
  { "itick_search_symbol", "itick_get_price", "itick_get_kline",
    "itick_get_quote", "itick_get_depth", "itick_get_trades" }

HKGov_cases ==
  { "hko_local_forecast", "hko_9day_forecast", "hko_current_weather",
    "hko_weather_warnings", "hko_special_tips", "hko_earthquake_info",
    "td_traffic_speed", "ha_ae_waiting_time", "kmb_get_routes",
    "kmb_get_stops", "kmb_get_eta" }

\* Mutant of HKO_cases: the switch has no case for the last tool.
HKO_casesShort ==
  { "hko_local_forecast", "hko_9day_forecast", "hko_current_weather",
    "hko_weather_warnings", "hko_special_tips", "hko_earthquake_info",
    "hko_tsunami_info" }

HKO_cases ==
  { "hko_local_forecast", "hko_9day_forecast", "hko_current_weather",
    "hko_weather_warnings", "hko_special_tips", "hko_earthquake_info",
    "hko_tsunami_info", "hko_all_weather" }

\* inputSchema.required of the descriptor of a tool, for the tools that have it.
required(s, toolName) ==
  IF s = "itick" /\ toolName \in iTick_cases THEN {"code"}
  ELSE IF s = "hk-gov" /\ toolName = "kmb_get_eta" THEN {"stop_id", "route", "direction"}
  ELSE { }

----------------------------------------------------------------------------
(* The wire alphabet *)

NL == "\n"
Whitespace == {" "}
Garbage == {"x"}

\* A JSON value as JSON.parse returns it.  type "object" carries the members
\* the servers read; a member that is absent reads as "undefined".
\* arguments: "undefined" (absent), "empty" ({}), "code" ({"code": "700"}).
Obj(id, method, params, name, arguments) ==
  [type |-> "object", id |-> id, method |-> method, params |-> params,
   name |-> name, arguments |-> arguments]

NonObj(t) ==
  [type |-> t, id |-> "undefined", method |-> "undefined", params |-> "undefined",
   name |-> "undefined", arguments |-> "undefined"]

\* The value tokens and the JSON text each stands for.
ValueTokens ==
  { "init1", "list2", "listN", "foo1", "callH1", "callH2", "callI1", "callI2",
    "callX2", "callP1", "null", "str" }

JSONValue(tok) ==
  CASE tok = "init1"  -> Obj("1", "initialize", "object", "undefined", "undefined")
    [] tok = "list2"  -> Obj("2", "tools/list", "undefined", "undefined", "undefined")
    [] tok = "listN"  -> Obj("undefined", "tools/list", "undefined", "undefined", "undefined")
    [] tok = "foo1"   -> Obj("1", "foo", "undefined", "undefined", "undefined")
    [] tok = "callH1" -> Obj("1", "tools/call", "object", "hko_local_forecast", "code")
    [] tok = "callH2" -> Obj("2", "tools/call", "object", "hko_current_weather", "empty")
    [] tok = "callI1" -> Obj("1", "tools/call", "object", "itick_get_price", "code")
    [] tok = "callI2" -> Obj("2", "tools/call", "object", "itick_get_quote", "code")
    [] tok = "callX2" -> Obj("2", "tools/call", "object", "nonexistent_tool", "empty")
    [] tok = "callP1" -> Obj("1", "tools/call", "undefined", "undefined", "undefined")
    [] tok = "null"   -> NonObj("null")
    [] tok = "str"    -> NonObj("string")

Chars == {NL} \cup Whitespace \cup Garbage \cup ValueTokens

\* Further requests: a second initialize with another id and empty params,
\* kmb_get_eta called with {} although its schema requires stop_id, route,
\* direction, and a tools/call whose params is {} (no name, no arguments).
CallTokens == { "init2", "callK1", "callN1" }

CallValue(tok) ==
  CASE tok = "init2"  -> Obj("2", "initialize", "empty", "undefined", "undefined")
    [] tok = "callK1" -> Obj("1", "tools/call", "object", "kmb_get_eta", "empty")
    [] tok = "callN1" -> Obj("1", "tools/call", "object", "undefined", "undefined")

----------------------------------------------------------------------------
(* String operations of the session loop *)

\* String.prototype.split('\n'): the pieces between newlines, always at least one.
RECURSIVE Split(_)
Split(s) ==
  IF \A i \in 1..Len(s) : s[i] # NL
    THEN << s >>
    ELSE LET i == CHOOSE k \in 1..Len(s) :
                    s[k] = NL /\ \A j \in 1..(k - 1) : s[j] # NL
         IN  << SubSeq(s, 1, i - 1) >> \o Split(SubSeq(s, i + 1, Len(s)))

Front(q) == SubSeq(q, 1, Len(q) - 1)
Last(q) == q[Len(q)]

\* Mutant of IsBlank: !line, without the trim.
IsEmpty(line) == line = << >>

\* !line.trim(): the line is empty or holds whitespace only.
IsBlank(line) == \A i \in 1..Len(line) : line[i] \in Whitespace

\* The line without its leading and trailing whitespace.
RECURSIVE Trim(_)
Trim(line) ==
  IF line = << >> THEN line
  ELSE IF Head(line) \in Whitespace THEN Trim(Tail(line))
  ELSE IF Last(line) \in Whitespace THEN Trim(Front(line))
  ELSE line

\* Every name of a registry, and a name of none: as a token, the name stands
\* for the tools/call request of that tool with the arguments {"code": "700"}.
NameTokens ==
  {iTick_defineTools[k] : k \in DOMAIN iTick_defineTools}
    \cup {HKGov_defineTools[k] : k \in DOMAIN HKGov_defineTools}
    \cup {HKO_defineTools[k] : k \in DOMAIN HKO_defineTools}
    \cup {"nonexistent_tool"}

NameValue(tok) == Obj("3", "tools/call", "object", tok, "code")

\* JSON.parse(line): whitespace around the value is skipped; the text must then be
\* exactly one JSON value, anything else throws SyntaxError.
JSONparse(line) ==
  LET t == Trim(line)
  IN  IF Len(t) = 1 /\ t[1] \in ValueTokens
        THEN JSONValue(t[1])
        ELSE IF Len(t) = 1 /\ t[1] \in CallTokens
          THEN CallValue(t[1])
        ELSE IF Len(t) = 1 /\ t[1] \in NameTokens
          THEN NameValue(t[1])
          ELSE NonObj("SyntaxError")

----------------------------------------------------------------------------
(* The state of a server process *)

VARIABLES
  srv,        \* which server this process is
  received,   \* everything read from stdin so far, the chunks concatenated
  buffer,     \* run(): let buffer
  extracted,  \* the complete lines split off so far, in order (line n is extracted[n])
  tasks,      \* the 'data' listeners suspended at an await
  requests,   \* the upstream requests issued so far
  stdout,     \* the lines written to stdout
  closed,     \* process.exit(0) has run
  spanned,    \* some line split off so far began in an earlier chunk
  tools,      \* this.tools, the registry the constructor built
  exitCode,   \* the arguments process.exit was called with, in order
  settled,    \* how each upstream request that has ended did end
  wire,       \* the characters written to stdout
  conns,      \* DAV server: the requests received, each with its response so far
  events,     \* DAV server: the entries of calendars/events.json
  files,      \* DAV server: the files that exist under files/
  fileOps     \* DAV server: the fs calls made under the data directory, per request

davVars == << conns, events, files, fileOps >>

vars == << srv, received, buffer, extracted, tasks, requests, stdout, closed, spanned,
           tools, exitCode, settled, wire, conns, events, files, fileOps >>

----------------------------------------------------------------------------
(* Protocol handlers.  A response is the object handed to JSON.stringify; a member
   whose value is undefined (id "undefined") is left out of the serialized line.
   code is 0 and isError "absent" where the object has no such member;
   capabilities is the set of the members of result.capabilities. *)

Response(id, kind, code, isError, text, serverInfo, capabilities, toolList) ==
  [id |-> id, kind |-> kind, code |-> code, isError |-> isError, text |-> text,
   serverInfo |-> serverInfo, capabilities |-> capabilities, tools |-> toolList]

\* Mutant of handleInitialize: only the first response of a session announces
\* the capabilities.
handleInitializeOnce(s, id) ==
  Response(id, "result", 0, "absent", << MCP_PROTOCOL_VERSION >>, SERVER_NAME(s),
           IF stdout = << >> THEN {"tools"} ELSE { }, << >>)

handleInitialize(s, id) ==
  Response(id, "result", 0, "absent", << MCP_PROTOCOL_VERSION >>, SERVER_NAME(s),
           {"tools"}, << >>)

\* Mutant of handleToolsList: refused until an initialize has been answered.
handleToolsListGated(s, id) ==
  IF \E i \in DOMAIN stdout : stdout[i].serverInfo # ""
    THEN Response(id, "result", 0, "absent", << >>, "", { }, tools)
    ELSE Response(id, "error", -32002, "absent", << "Server not initialized" >>, "", { }, << >>)

\* Mutant of handleToolsList: the first descriptor is left out.
handleToolsListShort(s, id) ==
  Response(id, "result", 0, "absent", << >>, "", { }, Tail(tools))

handleToolsList(s, id) ==
  Response(id, "result", 0, "absent", << >>, "", { }, tools)

\* Mutant of MethodNotFound: the code of "invalid request" instead.
MethodNotFoundAsInvalid(id, method) ==
  Response(id, "error", -32600, "absent", << "Method not found: ", method >>, "", { }, << >>)

\* Mutant of MethodNotFound: the message leaves as a result.
MethodNotFoundAsResult(id, method) ==
  Response(id, "result", 0, "absent", << "Method not found: ", method >>, "", { }, << >>)

MethodNotFound(id, method) ==
  Response(id, "error", -32601, "absent", << "Method not found: ", method >>, "", { }, << >>)

\* Mutant of ParseError: the code of "invalid request" instead.
ParseErrorAsInvalid(what) ==
  Response("undefined", "error", -32600, "absent", << "Parse error: ", what >>, "", { }, << >>)

ParseError(what) ==
  Response("undefined", "error", -32700, "absent", << "Parse error: ", what >>, "", { }, << >>)

\* Mutant of ToolResult: the id is left out of the response.
ToolResultNoId(id, text) ==
  Response("undefined", "result", 0, "false", text, "", { }, << >>)

\* handleToolsCall, try branch: the handler's result becomes content[0].
ToolResult(id, text) ==
  Response(id, "result", 0, "false", text, "", { }, << >>)

\* Mutant of ToolFailure: the failure leaves as a top-level JSON-RPC error.
ToolFailureAsError(id, message) ==
  Response(id, "error", -32603, "absent", << "Error: " >> \o message, "", { }, << >>)

\* handleToolsCall, catch branch.
ToolFailure(id, message) ==
  Response(id, "result", 0, "true", << "Error: " >> \o message, "", { }, << >>)

\* handleToolCall up to its first await: it throws, or it issues the upstream request.
Throws(message) == [throws |-> TRUE, message |-> message]
Awaits == [throws |-> FALSE, message |-> << >>]

\* Mutant of iTick_handleToolCall: the switch has no default branch, a name of no
\* case goes on to the upstream like the others.
iTick_handleToolCallNoDefault(toolName, args) ==
  IF args # "code"
    THEN Throws(<< "Stock code is required" >>)
    ELSE Awaits

\* args is "code" exactly when args?.code is truthy.
iTick_handleToolCall(toolName, args) ==
  IF args # "code"
    THEN Throws(<< "Stock code is required" >>)
    ELSE IF toolName \in iTick_cases
           THEN Awaits
           ELSE Throws(<< "Unknown tool: ", toolName >>)

\* case 'kmb_get_eta' reads args.stop_id: a TypeError when args is undefined.
HKGov_handleToolCall(toolName, args) ==
  IF toolName \in HKGov_cases
    THEN IF toolName = "kmb_get_eta" /\ args = "undefined"
           THEN Throws(<< "Cannot read properties of undefined" >>)
           ELSE Awaits
    ELSE Throws(<< "Unknown tool: ", toolName >>)

HKO_handleToolCall(toolName, args) ==
  IF toolName \in HKO_cases
    THEN Awaits
    ELSE Throws(<< "Unknown tool: ", toolName >>)

\* this.handleToolCall(params.name, params.arguments) of the server s.
handleToolCall(s, toolName, args) ==
  CASE s = "itick" -> iTick_handleToolCall(toolName, args)
    [] s = "hk-gov" -> HKGov_handleToolCall(toolName, args)
    [] s = "hko" -> HKO_handleToolCall(toolName, args)

\* How the upstream request of an awaiting handler ends.
Outcomes == {"ok", "timeout"}

\* The ways the request helper resolves although the upstream failed: a status
\* that is not 2xx, a body that is not JSON (resolved as the raw string), a JSON
\* body carrying the upstream's error code.
Faults == {"non2xx", "notjson", "errcode"}

\* req.on('error', reject) beside the timeout.
Rejections == {"timeout", "neterror"}

\* The message of the Error the request helper rejects with.
RejectionMessage(outcome) ==
  IF outcome = "timeout" THEN << "Request timeout" >> ELSE << "socket hang up" >>

\* handleToolsCall after the await: the upstream answered and the handler formatted
\* what it got (a fault formats to a text saying no data), or the request was
\* rejected.
Settle(id, toolName, outcome) ==
  IF outcome = "ok"
    THEN ToolResult(id, << "formatted ", toolName >>)
    ELSE IF outcome \in Faults
      THEN ToolResult(id, << "no data ", toolName >>)
      ELSE ToolFailure(id, RejectionMessage(outcome))

\* JSON.stringify(response): one JSON text, every newline inside a string escaped.
Stringify(response) ==
  << "{" >> \o (IF response.id = "undefined" THEN << >> ELSE << response.id >>)
         \o << response.kind >> \o response.text \o << "}" >>

\* Mutant of WriteLine: the newline is left out.
WriteBare(response) == Stringify(response)

\* The characters of stdout.write(JSON.stringify(response) + '\n').
WriteLine(response) == Stringify(response) \o << NL >>

\* The characters of the responses out[from + 1], ..., in the order written.
RECURSIVE WriteAll(_, _)
WriteAll(out, from) ==
  IF from >= Len(out) THEN << >>
  ELSE WriteLine(out[from + 1]) \o WriteAll(out, from + 1)

\* Mutant of Written: the server numbers its responses itself and uses the
\* number as the id.
WrittenNumbered(n, response) == [frame |-> n] @@ [response EXCEPT !.id = ToString(n)]

\* stdout.write(JSON.stringify(response) + '\n') for the line numbered n.
Written(n, response) == [frame |-> n] @@ response

\* The body of the for loop of the 'data' listener, from the first of `lines` up to
\* the next await of an upstream request or to the end of the lines.  A tools/call
\* that throws before any upstream request settles in microtasks, which run
\* before the event loop delivers another stdin event: the loop goes straight on.
\*   out   what has been written to stdout
\*   reqs  the upstream requests issued
\*   susp  the suspended listener, if it stopped at an await
RECURSIVE Run(_, _, _, _)

\* Mutant of Suspend: the call is not awaited, the loop goes on with the next
\* lines while the upstream request is pending.
Overlap(s, lines, out, reqs) ==
  LET l == Head(lines)
      m == JSONparse(l.text)
      r == Run(s, Tail(lines), out, reqs \cup {[frame |-> l.n, tool |-> m.name]})
  IN  [out |-> r.out,
       reqs |-> r.reqs,
       susp |-> r.susp \cup {[frame |-> l.n, id |-> m.id, tool |-> m.name,
                              first |-> l.first, rest |-> << >>]}]

\* await this.handleToolsCall(...) with the upstream request issued: the listener
\* stops at the first of `lines` and keeps the lines behind it for later.
Suspend(s, lines, out, reqs) ==
  LET l == Head(lines)
      m == JSONparse(l.text)
  IN  [out |-> out,
       reqs |-> reqs \cup {[frame |-> l.n, tool |-> m.name]},
       susp |-> {[frame |-> l.n, id |-> m.id, tool |-> m.name,
                  first |-> l.first, rest |-> Tail(lines)]}]

Run(s, lines, out, reqs) ==
  IF lines = << >>
    THEN [out |-> out, reqs |-> reqs, susp |-> { }]
    ELSE
      LET l == Head(lines)
          m == JSONparse(l.text)
      IN
        IF IsBlank(l.text)
          THEN Run(s, Tail(lines), out, reqs)
        ELSE IF m.type = "SyntaxError"
          THEN Run(s, Tail(lines), Append(out, Written(l.n, ParseError("SyntaxError"))), reqs)
        ELSE IF m.type = "null"
          THEN Run(s, Tail(lines), Append(out, Written(l.n, ParseError("TypeError"))), reqs)
        ELSE IF m.method = "initialize"
          THEN Run(s, Tail(lines), Append(out, Written(l.n, handleInitialize(s, m.id))), reqs)
        ELSE IF m.method = "tools/list"
          THEN Run(s, Tail(lines), Append(out, Written(l.n, handleToolsList(s, m.id))), reqs)
        ELSE IF m.method = "tools/call"
          THEN
            IF m.params = "undefined"
              THEN Run(s, Tail(lines),
                       Append(out, Written(l.n, ToolFailure(m.id,
                                 << "Cannot read properties of undefined" >>))), reqs)
            ELSE IF handleToolCall(s, m.name, m.arguments).throws
              THEN Run(s, Tail(lines),
                       Append(out, Written(l.n, ToolFailure(m.id,
                                 handleToolCall(s, m.name, m.arguments).message))), reqs)
            ELSE Suspend(s, lines, out, reqs)
        ELSE Run(s, Tail(lines), Append(out, Written(l.n, MethodNotFound(m.id, m.method))), reqs)

----------------------------------------------------------------------------
(* The session *)

\* The characters that stand for the text of a JSON value.
Values == ValueTokens \cup CallTokens \cup NameTokens

NumValues(s) == Cardinality({i \in 1..Len(s) : s[i] \in Values})

\* Every value needs its newline to become a line of its own.
MaxValues == MaxInput \div 2

\* The chunks of k characters a 'data' event can still deliver within the bounds.
ChunkSizes == 1..(MaxInput - Len(received))
Chunks(k) ==
  {c \in [1..k -> Chars] : NumValues(received) + NumValues(c) <= MaxValues}

\* Mutant of KeepTail: the buffer is cleared after every chunk.
KeepNothing(pieces) == << >>

\* Mutant of KeepTail: the last complete line stays in the buffer too, for the
\* next data event to split it off again.
KeepLastLine(pieces) ==
  IF Len(pieces) > 1
    THEN pieces[Len(pieces) - 1] \o << NL >> \o Last(pieces)
    ELSE Last(pieces)

\* lines.pop(): the piece after the last newline stays in the buffer.
KeepTail(pieces) == Last(pieces)

\* Mutant of CompleteLines: the unterminated last piece is handled as a line too.
AllPieces(pieces) == pieces

\* The pieces before it are the complete lines.
CompleteLines(pieces) == Front(pieces)

\* The lines of one data event with their ordinals; first is the ordinal of the
\* first line of the event.
Numbered(lines, from) ==
  [i \in 1..Len(lines) |-> [n |-> from + i, text |-> lines[i], first |-> from + 1]]

Init ==
  /\ srv \in Servers
  /\ received = << >>
  /\ buffer = << >>
  /\ extracted = << >>
  /\ tasks = { }
  /\ requests = { }
  /\ stdout = << >>
  /\ closed = FALSE
  /\ spanned = FALSE
  /\ tools = defineTools(srv)
  /\ exitCode = << >>
  /\ settled = { }
  /\ wire = << >>
  /\ conns = << >>
  /\ events = << >>
  /\ files = {"a"}
  /\ fileOps = { }

\* stdin.on('data', async (chunk) => ...), up to its first await or its end.
Data(chunk) ==
  /\ ~closed
  /\ LET pieces == Split(buffer \o chunk)
         lines == CompleteLines(pieces)
         r == Run(srv, Numbered(lines, Len(extracted)), stdout, requests)
     IN  /\ received' = received \o chunk
         /\ buffer' = KeepTail(pieces)
         /\ extracted' = extracted \o lines
         /\ stdout' = r.out
         /\ requests' = r.reqs
         /\ tasks' = tasks \cup r.susp
         /\ spanned' = (spanned \/ (buffer # << >> /\ Len(pieces) > 1))
         /\ wire' = wire \o WriteAll(r.out, Len(stdout))
  /\ UNCHANGED << srv, closed, tools, exitCode, settled >>
  /\ UNCHANGED davVars

\* The upstream request of a suspended listener ends: the response of its
\* tools/call is written and the listener goes on with its remaining lines.
Complete(t, outcome) ==
  /\ t \in tasks
  /\ LET r == Run(srv, t.rest,
                  Append(stdout, Written(t.frame, Settle(t.id, t.tool, outcome))),
                  requests)
     IN  /\ stdout' = r.out
         /\ requests' = r.reqs
         /\ tasks' = (tasks \ {t}) \cup r.susp
         /\ wire' = wire \o WriteAll(r.out, Len(stdout))
  /\ settled' = settled \cup {[frame |-> t.frame, outcome |-> outcome]}
  /\ UNCHANGED << srv, received, buffer, extracted, closed, spanned, tools, exitCode >>
  /\ UNCHANGED davVars

\* Mutant of Discard: the suspended listeners outlive process.exit.
KeepRunning(suspended) == suspended

\* process.exit: no suspended listener ever resumes.
Discard(suspended) == { }

\* stdin.on('end', () => process.exit(0)): the process ends, whatever is suspended.
End ==
  /\ ~closed
  /\ closed' = TRUE
  /\ exitCode' = Append(exitCode, 0)
  /\ tasks' = Discard(tasks)
  /\ UNCHANGED << srv, received, buffer, extracted, requests, stdout, spanned,
                  tools, settled, wire >>
  /\ UNCHANGED davVars

Next ==
  \/ \E k \in ChunkSizes : \E chunk \in Chunks(k) : Data(chunk)
  \/ \E t \in tasks, outcome \in Outcomes : Complete(t, outcome)
  \/ End

Spec == Init /\ [][Next]_vars

\* The sessions of a tool client: requests only, separated by newlines and
\* whitespace, with every way an upstream request can end.
CallChars ==
  {NL} \cup Whitespace \cup CallTokens
       \cup {"init1", "list2", "callH1", "callI1", "callX2", "callP1"}

CallChunks(k) ==
  {c \in [1..k -> CallChars] : NumValues(received) + NumValues(c) <= MaxValues}

CallOutcomes == Outcomes \cup Faults \cup Rejections

CallNext ==
  \/ \E k \in ChunkSizes : \E chunk \in CallChunks(k) : Data(chunk)
  \/ \E t \in tasks, outcome \in CallOutcomes : Complete(t, outcome)
  \/ End

CallSpec == Init /\ [][CallNext]_vars

\* The sessions that list the tools and call tools by every name.
RegistryChars == {NL, "list2"} \cup NameTokens

\* Their chunks are short: every text still arrives, in more data events.
RegistrySizes == {k \in ChunkSizes : k <= MaxValues}

RegistryChunks(k) ==
  {c \in [1..k -> RegistryChars] : NumValues(received) + NumValues(c) <= MaxValues}

RegistryNext ==
  \/ \E k \in RegistrySizes : \E chunk \in RegistryChunks(k) : Data(chunk)
  \/ \E t \in tasks, outcome \in Outcomes : Complete(t, outcome)
  \/ End

RegistrySpec == Init /\ [][RegistryNext]_vars

\* The sessions that compare the servers: every kind of line, with a tool of
\* the itick registry, a tool of the hk-gov and hko registries and a name of none.
EngineChars ==
  {NL} \cup Garbage
       \cup {"init1", "list2", "foo1", "null", "callP1",
             "itick_get_price", "hko_local_forecast", "nonexistent_tool"}

EngineChunks(k) ==
  {c \in [1..k -> EngineChars] : NumValues(received) + NumValues(c) <= MaxValues}

EngineNext ==
  \/ \E k \in ChunkSizes : \E chunk \in EngineChunks(k) : Data(chunk)
  \/ \E t \in tasks, outcome \in Outcomes : Complete(t, outcome)
  \/ End

EngineSpec == Init /\ [][EngineNext]_vars

\* The hk-gov CLI and its server.  COMMANDS: the tools the CLI calls.
COMMANDS ==
  { "hko_local_forecast", "hko_9day_forecast", "hko_current_weather",
    "hko_weather_warnings", "hko_special_tips", "hko_earthquake_info",
    "td_traffic_speed", "ha_ae_waiting_time", "kmb_get_routes", "kmb_get_stops" }

\* callMCPTool spawns the hk-gov server.
CliInit == Init /\ srv = "hk-gov"

\* callMCPTool's three writes, 100 ms apart: initialize with id 1, tools/list
\* with id 2, tools/call of toolName with id 3, each with its newline.
ClientWrite(toolName) ==
  /\ Len(extracted) < 3
  /\ Data(CASE Len(extracted) = 0 -> << "init1", NL >>
            [] Len(extracted) = 1 -> << "list2", NL >>
            [] Len(extracted) = 2 -> << toolName, NL >>)

\* server.stdin.end() right after the third write.
ClientEnd == Len(extracted) = 3 /\ End

\* server.on('close') with code 0: the text of the last line of the output that
\* has result.content[0].text, and the whole output if no line has one.
Resolved ==
  LET withText == {i \in DOMAIN stdout :
                     stdout[i].kind = "result" /\ stdout[i].isError \in {"true", "false"}}
  IN  IF withText = { }
        THEN wire
        ELSE stdout[CHOOSE i \in withText : \A j \in withText : j <= i].text

CliNext ==
  \/ \E toolName \in COMMANDS : ClientWrite(toolName)
  \/ \E t \in tasks, outcome \in CallOutcomes : Complete(t, outcome)
  \/ ClientEnd

CliSpec == CliInit /\ [][CliNext]_vars

\* The sessions whose upstream never answers: every request ends by its 30 s
\* timeout.  The timer of a pending request fires unless the process has exited,
\* hence the weak fairness of each suspended listener's resumption.
SilentNext ==
  \/ \E k \in ChunkSizes : \E chunk \in CallChunks(k) : Data(chunk)
  \/ \E t \in tasks : Complete(t, "timeout")
  \/ End

SilentSpec ==
  /\ Init
  /\ [][SilentNext]_vars
  /\ \A n \in 1..MaxInput :
       WF_vars(\E t \in tasks : t.frame = n /\ Complete(t, "timeout"))

----------------------------------------------------------------------------
(* The DAV server *)

\* Bound of the model: the number of requests the DAV server receives.
MaxConns == 2

\* CONFIG.auth.
CONFIG_auth == [username |-> << "admin" >>, password |-> << "openclaw123" >>]

\* The decoded credentials of a Basic header are a sequence of characters: ":",
\* "x", and two tokens that stand for the text of the configured user name and
\* of the configured password.
CredChars == {"admin", "openclaw123", "x", ":"}
MaxCred == MaxInput
Credentials == UNION {[1..k -> CredChars] : k \in 0..MaxCred}

\* req.headers.authorization: absent, of another scheme, or 'Basic ' followed by
\* the base64 text of the credentials.
Headers ==
  {[scheme |-> "none", credentials |-> << >>],
   [scheme |-> "Bearer", credentials |-> << >>]}
    \cup {[scheme |-> "Basic", credentials |-> c] : c \in Credentials}

\* String.prototype.split(sep): the pieces between separators, always at least one.
RECURSIVE SplitAt(_, _)
SplitAt(s, sep) ==
  IF \A i \in 1..Len(s) : s[i] # sep
    THEN << s >>
    ELSE LET i == CHOOSE k \in 1..Len(s) :
                    s[k] = sep /\ \A j \in 1..(k - 1) : s[j] # sep
         IN  << SubSeq(s, 1, i - 1) >> \o SplitAt(SubSeq(s, i + 1, Len(s)), sep)

\* checkAuth(req, res): the status it answers with, 0 if it returns true.
\* const [user, pass] = credentials.split(':') takes the first two pieces, and
\* pass is undefined if there is one piece only.
checkAuth(auth) ==
  IF auth.scheme # "Basic"
    THEN 401
    ELSE LET pieces == SplitAt(auth.credentials, ":")
             user == pieces[1]
             pass == IF Len(pieces) >= 2 THEN pieces[2] ELSE << "undefined" >>
         IN  IF user # CONFIG_auth.username \/ pass # CONFIG_auth.password
               THEN 403
               ELSE 0

Methods == {"OPTIONS", "GET", "POST", "DELETE"}
Paths == {"/api/calendars", "/files/a", "/nowhere"}
Requests == [method : Methods, path : Paths, auth : Headers]

\* What a route handler does before it returns: the status it answers with (0 if
\* it waits for the body), the fs calls it makes, the files left under files/.
Effect(status, route, calls, left) ==
  [status |-> status, route |-> route, calls |-> calls, files |-> left]

\* handleWebDAV for /files/a.
handleWebDAV(method) ==
  IF method = "GET"
    THEN IF "a" \in files
           THEN Effect(200, "handleWebDAV", {"existsSync", "statSync", "readFileSync"}, files)
           ELSE Effect(404, "handleWebDAV", {"existsSync"}, files)
  ELSE IF method = "DELETE"
    THEN IF "a" \in files
           THEN Effect(204, "handleWebDAV", {"existsSync", "rmSync"}, files \ {"a"})
           ELSE Effect(204, "handleWebDAV", {"existsSync"}, files)
  ELSE Effect(405, "handleWebDAV", { }, files)

\* loadCalendarEvents: events.json exists once an event has been saved.
loadCalendarEvents ==
  IF events # << >> THEN {"existsSync", "readFileSync"} ELSE {"existsSync"}

\* handleAPI for /api/calendars: GET lists the events, POST installs the 'data'
\* and 'end' listeners of the request and returns.
handleAPI(method) ==
  IF method = "GET"
    THEN Effect(200, "handleAPI", loadCalendarEvents, files)
  ELSE IF method = "POST"
    THEN Effect(0, "handleAPI", { }, files)
  ELSE Effect(404, "handleAPI", { }, files)

\* The request listener of http.createServer (and of https.createServer):
\* OPTIONS is answered at once, then checkAuth, then the routes.
handler(req) ==
  IF req.method = "OPTIONS"
    THEN Effect(200, "none", { }, files)
  ELSE IF checkAuth(req.auth) # 0
    THEN Effect(checkAuth(req.auth), "none", { }, files)
  ELSE IF req.path = "/files/a"
    THEN handleWebDAV(req.method)
  ELSE IF req.path = "/api/calendars"
    THEN handleAPI(req.method)
  ELSE Effect(404, "none", { }, files)

\* The fs calls of request i.
Calls(i, calls) == {[conn |-> i, call |-> c] : c \in calls}

\* A request arrives and its listener runs.
Request(req) ==
  LET e == handler(req)
      i == Len(conns) + 1
  IN  /\ conns' = Append(conns, [method |-> req.method, path |-> req.path,
                                 auth |-> req.auth, status |-> e.status,
                                 route |-> e.route, body |-> << >>,
                                 open |-> (e.status = 0)])
      /\ files' = e.files
      /\ fileOps' = fileOps \cup Calls(i, e.calls)
      /\ UNCHANGED events

\* The characters of a request body: the text of a JSON object, of the JSON
\* value null, of a JSON string (or number, or array), and a non-JSON character.
BodyChars == {"init1", "null", "str", "x"}
MaxBody == MaxInput \div 2

\* req.on('data', chunk => body += chunk) of request i.
BodyData(i, chunk) ==
  /\ i \in DOMAIN conns
  /\ conns[i].open
  /\ Len(conns[i].body) < MaxBody
  /\ conns' = [conns EXCEPT ![i].body = @ \o << chunk >>]
  /\ UNCHANGED << events, files, fileOps >>

\* saveCalendarEvent: load, push, write, in one synchronous call.
saveCalendarEvent(before, i, body) == Append(before, [conn |-> i, text |-> body])

\* req.on('end', ...) of request i.  JSON.parse throws on a body that is not
\* JSON; saveCalendarEvent throws at event.id, after it has loaded the events,
\* if the event is null; a string or a number is stored as it is.
BodyEnd(i) ==
  /\ i \in DOMAIN conns
  /\ conns[i].open
  /\ LET event == JSONparse(conns[i].body)
     IN  IF event.type = "SyntaxError"
           THEN /\ conns' = [conns EXCEPT ![i].status = 400, ![i].open = FALSE]
                /\ UNCHANGED << events, fileOps >>
         ELSE IF event.type = "null"
           THEN /\ conns' = [conns EXCEPT ![i].status = 400, ![i].open = FALSE]
                /\ fileOps' = fileOps \cup Calls(i, loadCalendarEvents)
                /\ UNCHANGED events
         ELSE /\ conns' = [conns EXCEPT ![i].status = 201, ![i].open = FALSE]
              /\ events' = saveCalendarEvent(events, i, conns[i].body)
              /\ fileOps' = fileOps \cup Calls(i, loadCalendarEvents \cup {"writeFileSync"})
  /\ UNCHANGED files

\* The DAV server process: no request yet; the MCP servers are other processes.
DavInit ==
  /\ srv = "none"
  /\ received = << >>
  /\ buffer = << >>
  /\ extracted = << >>
  /\ tasks = { }
  /\ requests = { }
  /\ stdout = << >>
  /\ closed = FALSE
  /\ spanned = FALSE
  /\ tools = << >>
  /\ exitCode = << >>
  /\ settled = { }
  /\ wire = << >>
  /\ conns = << >>
  /\ events = << >>
  /\ files = {"a"}
  /\ fileOps = { }

mcpVars == << srv, received, buffer, extracted, tasks, requests, stdout, closed, spanned,
              tools, exitCode, settled, wire >>

\* One request of any method, path and Authorization header.
AuthNext ==
  \/ conns = << >> /\ (\E req \in Requests : Request(req)) /\ UNCHANGED mcpVars
  \/ \E i \in DOMAIN conns, chunk \in BodyChars : BodyData(i, chunk) /\ UNCHANGED mcpVars
  \/ \E i \in DOMAIN conns : BodyEnd(i) /\ UNCHANGED mcpVars

AuthSpec == DavInit /\ [][AuthNext]_vars

\* Authenticated POST /api/calendars requests, their bodies interleaved.
Authenticated ==
  [scheme |-> "Basic",
   credentials |-> CONFIG_auth.username \o << ":" >> \o CONFIG_auth.password]

PostNext ==
  \/ /\ Len(conns) < MaxConns
     /\ Request([method |-> "POST", path |-> "/api/calendars", auth |-> Authenticated])
     /\ UNCHANGED mcpVars
  \/ \E i \in DOMAIN conns, chunk \in BodyChars : BodyData(i, chunk) /\ UNCHANGED mcpVars
  \/ \E i \in DOMAIN conns : BodyEnd(i) /\ UNCHANGED mcpVars

PostSpec == DavInit /\ [][PostNext]_vars

----------------------------------------------------------------------------
(* Properties *)

\* The positions of stdout that answer line n.
Answers(n) == {i \in DOMAIN stdout : stdout[i].frame = n}

\* The parsed text of the line a response answers.
Trigger(r) == JSONparse(extracted[r.frame])

\* No 'data' listener is suspended.
Quiescent == tasks = { }

\* The text of a line is empty or whitespace only (as specified, apart from the code).
BlankText(line) == \A i \in DOMAIN line : line[i] = " "

NumNewlines(s) == Cardinality({i \in 1..Len(s) : s[i] = NL})

IsCall(m) == m.type = "object" /\ m.method = "tools/call"

Contains(text, part) == \E i \in DOMAIN text : text[i] = part

\* C1: responses are written to stdout in the order their triggering lines were
\* read from stdin, whatever the chunking and whatever the upstream latencies.
C1_ResponsesInRequestOrder ==
  \A i, j \in DOMAIN stdout : i < j => stdout[i].frame < stdout[j].frame

\* C2: every line that is not blank is answered by exactly one line on stdout,
\* never none and never two (read whenever no handler is still in flight, the
\* end of the process included).
C2_ExactlyOneResponsePerFrame ==
  /\ \A n \in DOMAIN extracted : Cardinality(Answers(n)) <= 1
  /\ Quiescent =>
       \A n \in DOMAIN extracted :
         ~BlankText(extracted[n]) => Cardinality(Answers(n)) = 1

\* C3: a tools/call whose upstream request was issued is answered; the end of
\* stdin does not discard it.
C3_DispatchedCallIsAnswered ==
  closed => \A q \in requests : Answers(q.frame) # { }

\* C4: the lines split off, over all data events, are the pieces of the
\* concatenated input split on newline, without the last piece.
C4_ChunkingTransparent ==
  extracted = Front(Split(received))

\* C4 witness: a line that began in one chunk and ended in a later one was
\* split off, and another line after it.
C4_Witness ==
  spanned /\ Len(extracted) >= 2 /\ \E n \in DOMAIN extracted : Len(extracted[n]) >= 2

\* C5: the buffer never holds a newline and is the input after the last newline
\* received; only newline-terminated text is answered or sent upstream.
C5_FrameOnlyAfterNewline ==
  /\ \A i \in DOMAIN buffer : buffer[i] # NL
  /\ buffer = Last(Split(received))
  /\ \A i \in DOMAIN stdout : stdout[i].frame \in 1..NumNewlines(received)
  /\ \A q \in requests : q.frame \in 1..NumNewlines(received)
  /\ Len(stdout) <= Cardinality({n \in DOMAIN Front(Split(received)) :
                                    ~BlankText(Front(Split(received))[n])})

\* C5 witness: stdin ended with an unterminated request in the buffer, after a
\* terminated line was answered.
C5_Witness ==
  /\ closed
  /\ JSONparse(buffer).type = "object"
  /\ Len(stdout) = 1

\* C6: a blank line is answered by nothing, and the lines around it are answered
\* all the same: once the listeners have finished, every line that is not blank
\* has its one answer.
C6_BlankFramesDropped ==
  /\ \A i \in DOMAIN stdout : ~BlankText(extracted[stdout[i].frame])
  /\ (~closed /\ Quiescent) =>
       \A n \in DOMAIN extracted :
         Cardinality(Answers(n)) = (IF BlankText(extracted[n]) THEN 0 ELSE 1)

\* C6 witness: a whitespace-only line was dropped and the line after it answered.
C6_Witness ==
  \E n \in DOMAIN extracted :
    /\ BlankText(extracted[n]) /\ extracted[n] # << >>
    /\ Answers(n) = { }
    /\ Answers(n + 1) # { }

\* C7: every line that is not blank and not valid JSON is answered by exactly one
\* error -32700 without id, and the lines after it are answered too.
C7_MalformedFrameAnsweredOnce ==
  Quiescent =>
    \A n \in DOMAIN extracted :
      (~BlankText(extracted[n]) /\ JSONparse(extracted[n]).type = "SyntaxError") =>
        /\ Cardinality(Answers(n)) = 1
        /\ \A i \in Answers(n) :
             stdout[i].kind = "error" /\ stdout[i].code = -32700 /\ stdout[i].id = "undefined"
        /\ \A k \in DOMAIN extracted :
             (k > n /\ ~BlankText(extracted[k])) => Answers(k) # { }

\* C8: a response that is not a parse error carries the id of the line that
\* triggered it; a parse error carries no id.
C8_ResponseIdIsRequestId ==
  \A i \in DOMAIN stdout :
    IF stdout[i].kind = "error" /\ stdout[i].code = -32700
      THEN stdout[i].id = "undefined"
      ELSE stdout[i].id = Trigger(stdout[i]).id

\* C8 witness: two tools/call with different ids were in flight together and the
\* later one was answered first, each with its own id.
C8_Witness ==
  \E i, j \in DOMAIN stdout :
    /\ i < j /\ stdout[i].frame > stdout[j].frame
    /\ stdout[i].isError = "false" /\ stdout[j].isError = "false"
    /\ stdout[i].id = "2" /\ stdout[j].id = "1"

\* C9: a tools/call that names a tool outside the registry is answered by a
\* result with isError true whose text contains the tool name, in each server
\* and for every arguments value.
C9_UnknownToolNamed ==
  \A i \in DOMAIN stdout :
    LET m == Trigger(stdout[i])
    IN  (IsCall(m) /\ m.params = "object"
           /\ \A k \in DOMAIN defineTools(srv) : defineTools(srv)[k] # m.name) =>
          /\ stdout[i].kind = "result"
          /\ stdout[i].isError = "true"
          /\ Contains(stdout[i].text, m.name)

\* C10: a JSON object whose method is none of initialize, tools/list, tools/call
\* is answered by the error -32601 naming the method, with the request's id, and
\* no tool handler runs for it.
C10_UnknownMethod ==
  \A n \in DOMAIN extracted :
    LET m == JSONparse(extracted[n])
    IN  (m.type = "object" /\ m.method \notin {"initialize", "tools/list", "tools/call"}) =>
          /\ \A i \in Answers(n) :
               /\ stdout[i].kind = "error"
               /\ stdout[i].code = -32601
               /\ Contains(stdout[i].text, m.method)
               /\ stdout[i].id = m.id
          /\ \A q \in requests : q.frame # n
          /\ \A t \in tasks : t.frame # n

\* C10 witness: a request with the method "foo" was answered.
C10_Witness ==
  \E i \in DOMAIN stdout :
    Trigger(stdout[i]).type = "object" /\ Trigger(stdout[i]).method = "foo"

\* The tools/call m fails inside the handler before any upstream request.
ThrowsAtOnce(m) ==
  IsCall(m) /\ (m.params = "undefined" \/ handleToolCall(srv, m.name, m.arguments).throws)

\* The upstream request of line n was rejected.
Rejected(n) == \E e \in settled : e.frame = n /\ e.outcome \in Rejections

\* The lines a suspended listener still has to handle.
Queued(t) == {t.frame} \cup {t.rest[k].n : k \in DOMAIN t.rest}

\* C11: a tools/call that fails inside the handler (it throws at once, or its
\* upstream request is rejected) is answered by a result with isError true, the
\* text "Error: " and the message, and the request's id, never by a top-level
\* error; and while stdin is open no later line is lost: each is answered or
\* still queued in a suspended listener.
C11_HandlerFailureIsToolError ==
  /\ \A i \in DOMAIN stdout :
       (ThrowsAtOnce(Trigger(stdout[i])) \/ Rejected(stdout[i].frame)) =>
         /\ stdout[i].kind = "result"
         /\ stdout[i].isError = "true"
         /\ Len(stdout[i].text) >= 2 /\ stdout[i].text[1] = "Error: "
         /\ stdout[i].id = Trigger(stdout[i]).id
  /\ ~closed =>
       \A n \in DOMAIN extracted :
         ~BlankText(extracted[n]) =>
           (Answers(n) # { } \/ \E t \in tasks : n \in Queued(t))

\* C11 witness: an upstream request was rejected and its call answered with
\* isError true; the line behind it in the same chunk, a call that throws at
\* once, was answered after it in the same way.
C11_Witness ==
  \E i, k \in DOMAIN stdout :
    /\ Rejected(stdout[i].frame) /\ stdout[i].isError = "true"
    /\ i < k /\ stdout[k].frame > stdout[i].frame
    /\ ThrowsAtOnce(Trigger(stdout[k])) /\ stdout[k].isError = "true"

\* The members an arguments value has.
Given(arguments) == IF arguments = "code" THEN {"code"} ELSE { }

\* The upstream request of line n resolved although the upstream failed.
Faulted(n) == \E e \in settled : e.frame = n /\ e.outcome \in Faults

\* C12: a tools/call of a registered tool whose upstream answered with a status
\* that is not 2xx, with a body that is not JSON or with an upstream error code,
\* or whose arguments lack a member its schema requires, is answered with
\* isError true.
C12_ToolFaultIsError ==
  \A i \in DOMAIN stdout :
    LET m == Trigger(stdout[i])
    IN  (/\ IsCall(m) /\ m.params = "object"
         /\ \E k \in DOMAIN tools : tools[k] = m.name
         /\ (Faulted(stdout[i].frame) \/ ~(required(srv, m.name) \subseteq Given(m.arguments)))) =>
          stdout[i].kind = "result" /\ stdout[i].isError = "true"

IsList(m) == m.type = "object" /\ m.method = "tools/list"

\* C13: the registry is the one the constructor built, in every state, and every
\* tools/list is answered with exactly that list, in that order: two tools/list
\* in one session get the same list, whatever was handled in between.
C13_ToolsListIdempotent ==
  /\ tools = defineTools(srv)
  /\ \A i \in DOMAIN stdout :
       IsList(Trigger(stdout[i])) =>
         stdout[i].kind = "result" /\ stdout[i].tools = defineTools(srv)
  /\ \A i, j \in DOMAIN stdout :
       (IsList(Trigger(stdout[i])) /\ IsList(Trigger(stdout[j]))) =>
         stdout[i].tools = stdout[j].tools

\* C13 witness: two tools/list lines of one session were answered, each with a
\* list that is not empty.
C13_Witness ==
  \E i, j \in DOMAIN stdout :
    /\ i < j /\ stdout[i].frame # stdout[j].frame
    /\ IsList(Trigger(stdout[i])) /\ IsList(Trigger(stdout[j]))
    /\ stdout[i].tools # << >>

IsInitialize(m) == m.type = "object" /\ m.method = "initialize"

\* C14: every initialize is answered by a result with the id of the request, the
\* protocol version 2024-11-05, the capabilities {tools: {}} and the name of the
\* server, whatever its params and however many initialize came before.
C14_InitializeFixed ==
  \A i \in DOMAIN stdout :
    IsInitialize(Trigger(stdout[i])) =>
      /\ stdout[i].kind = "result"
      /\ stdout[i].id = Trigger(stdout[i]).id
      /\ stdout[i].text = << "2024-11-05" >>
      /\ stdout[i].capabilities = {"tools"}
      /\ stdout[i].serverInfo = SERVER_NAME(srv)

\* C14 witness: two initialize with different ids and different params were
\* answered in one session.
C14_Witness ==
  \E i, j \in DOMAIN stdout :
    /\ i < j
    /\ IsInitialize(Trigger(stdout[i])) /\ IsInitialize(Trigger(stdout[j]))
    /\ Trigger(stdout[i]).params # Trigger(stdout[j]).params
    /\ stdout[i].id # stdout[j].id

\* The output is a parse error without id, then the tool list for the request 2.
ParseErrorThenToolList ==
  /\ Len(stdout) = 2
  /\ stdout[1].frame = 1 /\ stdout[1].kind = "error" /\ stdout[1].code = -32700
  /\ stdout[1].id = "undefined"
  /\ stdout[2].frame = 2 /\ stdout[2].kind = "result" /\ stdout[2].id = "2"
  /\ stdout[2].tools = defineTools(srv)

\* C15, as stated: the input of two lines, "not json" with its quotes (the
\* token str) and a tools/list with id 2, yields a parse error, then the tool list.
C15_QuotedNotJson ==
  received = << "str", NL, "list2", NL >> => ParseErrorThenToolList

\* C15, amended: the input of two lines, not json without quotes (the character
\* x) and a tools/list with id 2, yields a parse error without id, then the tool
\* list, however the input is cut into chunks; with the quotes, the first line is
\* a JSON string and is answered by the error -32601 without id instead.
C15_UnquotedNotJson ==
  /\ received = << "x", NL, "list2", NL >> => ParseErrorThenToolList
  /\ received = << "str", NL, "list2", NL >> =>
        /\ Len(stdout) = 2
        /\ stdout[1].kind = "error" /\ stdout[1].code = -32601
        /\ stdout[1].id = "undefined"
        /\ stdout[2].tools = defineTools(srv)

\* C15 witness: the two lines came in two chunks cut inside the second line, and
\* both were answered.
C15_Witness ==
  /\ received = << "x", NL, "list2", NL >>
  /\ spanned
  /\ Len(stdout) = 2

\* C16: the session is Active until stdin ends and Closed from then on.  Only the
\* end of stdin closes it, in a step that reads no input and exits with status 0;
\* a step that takes input leaves it Active; once Closed it stays Closed and
\* nothing more is written.
C16_ActiveUntilEnd ==
  /\ [](closed <=> exitCode = << 0 >>)
  /\ [](~closed <=> exitCode = << >>)
  /\ [][ /\ (closed' # closed) =>
              (~closed /\ received' = received /\ stdout' = stdout
                /\ exitCode' = << 0 >>)
         /\ (received' # received) => (~closed /\ ~closed')
         /\ closed => (closed' /\ stdout' = stdout /\ wire' = wire) ]_vars

\* C16 witness: the session is Closed with status 0 after it answered a line, and
\* a call whose upstream request was pending at the end stays unanswered.
C16_Witness ==
  /\ closed /\ exitCode = << 0 >>
  /\ Len(stdout) >= 1
  /\ \E q \in requests : Answers(q.frame) = { }

Count(text, c) == Cardinality({i \in DOMAIN text : text[i] = c})

\* C17: at every moment the characters on stdout are whole frames: as many
\* newline-terminated lines as responses were written, nothing after the last
\* newline, and each line one JSON object from its opening to its closing brace,
\* the object of the response written at that position.
C17_WholeFramesOnly ==
  LET pieces == Split(wire)
  IN  /\ Last(pieces) = << >>
      /\ Len(pieces) = Len(stdout) + 1
      /\ \A i \in DOMAIN stdout :
           /\ Len(pieces[i]) >= 3
           /\ Head(pieces[i]) = "{" /\ Last(pieces[i]) = "}"
           /\ Count(pieces[i], "{") = 1 /\ Count(pieces[i], "}") = 1
           /\ Count(pieces[i], stdout[i].kind) = 1
           /\ stdout[i].id # "undefined" => Count(pieces[i], stdout[i].id) >= 1

\* C17 witness: two handlers were suspended at the same time and the later one
\* wrote its frame first; stdout holds their two lines.
C17_Witness ==
  /\ Cardinality(settled) = 2
  /\ Len(Split(wire)) = 3
  /\ \E i, j \in DOMAIN stdout : i < j /\ stdout[i].frame > stdout[j].frame

\* The methods answered by a result.
Served == {"initialize", "tools/list", "tools/call"}

\* C18: every response has exactly one of result and error: a result (code
\* absent) for initialize, tools/list and every tools/call, failed or not; an
\* error with code -32700 for a line that does not parse to a request, with code
\* -32601 for any other method, and then no isError, no tools, no serverInfo.
C18_ResultXorError ==
  \A i \in DOMAIN stdout :
    LET m == Trigger(stdout[i])
        r == stdout[i]
    IN  /\ r.kind \in {"result", "error"}
        /\ r.kind = "result" <=> (m.type = "object" /\ m.method \in Served)
        /\ r.kind = "result" => r.code = 0
        /\ r.kind = "error" =>
             /\ r.code = (IF m.type \in {"SyntaxError", "null"} THEN -32700 ELSE -32601)
             /\ r.isError = "absent" /\ r.tools = << >> /\ r.serverInfo = ""
        /\ IsCall(m) => r.isError \in {"true", "false"}

\* C18 witness: one session got a result with isError true for a failed
\* tools/call and an error for a line that is not JSON.
C18_Witness ==
  \E i, j \in DOMAIN stdout :
    /\ stdout[i].kind = "result" /\ stdout[i].isError = "true"
    /\ stdout[j].kind = "error" /\ stdout[j].code = -32700

\* C19: when the upstream never answers, a tools/call that awaits it is
\* eventually answered by a result with isError true, and every line queued
\* behind it that is not blank is eventually answered too.
C19_TimeoutAnswersCall ==
  \A n \in 1..MaxInput :
    /\ (\E t \in tasks : t.frame = n)
          ~> (\E i \in Answers(n) : stdout[i].kind = "result" /\ stdout[i].isError = "true")
    /\ (\E t \in tasks : n \in Queued(t) /\ ~BlankText(extracted[n]))
          ~> (Answers(n) # { })

\* How the upstream request of line n ended, "none" if it has not or there is none.
OutcomeOf(n) ==
  IF \E e \in settled : e.frame = n
    THEN (CHOOSE e \in settled : e.frame = n).outcome
    ELSE "none"

\* A response without the ordinal of its line.
Content(r) ==
  [id |-> r.id, kind |-> r.kind, code |-> r.code, isError |-> r.isError,
   text |-> r.text, serverInfo |-> r.serverInfo, capabilities |-> r.capabilities,
   tools |-> r.tools]

\* What the server answers to the text F as the first line of a session, when
\* the upstream request, if there is one, ends by outcome.
FreshAnswer(F, outcome) ==
  LET r == Run(srv, << [n |-> 0, text |-> F, first |-> 0] >>, << >>, { })
  IN  IF r.susp = { }
        THEN Content(r.out[1])
        ELSE LET t == CHOOSE t \in r.susp : TRUE
             IN  Content(Settle(t.id, t.tool, outcome))

\* C20: the response to a line depends on the text of the line and on how its
\* upstream request ended, on nothing else: two lines with the same text and the
\* same upstream outcome get the same response wherever they stand in the
\* session, and it is the response the line would get as the first of a session.
C20_RequestsIndependent ==
  /\ \A i, j \in DOMAIN stdout :
       (/\ extracted[stdout[i].frame] = extracted[stdout[j].frame]
        /\ OutcomeOf(stdout[i].frame) = OutcomeOf(stdout[j].frame)) =>
         Content(stdout[i]) = Content(stdout[j])
  /\ \A i \in DOMAIN stdout :
       Content(stdout[i]) =
         FreshAnswer(extracted[stdout[i].frame], OutcomeOf(stdout[i].frame))

\* C20 witness: the same tools/call text came twice in one session, first with
\* no history and then after itself, both upstream requests ended the same
\* way, and the two responses are there.
C20_Witness ==
  \E i, j \in DOMAIN stdout :
    /\ stdout[i].frame # stdout[j].frame
    /\ extracted[stdout[i].frame] = extracted[stdout[j].frame]
    /\ OutcomeOf(stdout[i].frame) \in Faults
    /\ OutcomeOf(stdout[i].frame) = OutcomeOf(stdout[j].frame)

\* C21: the error -32700 answers only a line that is not valid JSON, never a line
\* that parses to a JSON value (null, a string, an object); the error -32601
\* answers only a parsed line whose method is none of the three served.
C21_ParseErrorOnlyForInvalidJSON ==
  \A i \in DOMAIN stdout :
    LET m == Trigger(stdout[i])
    IN  /\ (stdout[i].kind = "error" /\ stdout[i].code = -32700) => m.type = "SyntaxError"
        /\ (stdout[i].kind = "error" /\ stdout[i].code = -32601) =>
             (m.type # "SyntaxError" /\ m.method \notin Served)

\* Line n has been started: it is answered or its upstream request is issued.
Started(n) == Answers(n) # { } \/ \E q \in requests : q.frame = n

\* C22: within the lines of one data event, a line is started only after the
\* lines before it are answered: while a tools/call awaits its upstream request,
\* every line of its event before it that is not blank has its response on
\* stdout, and no line of its event behind it is started.
C22_SerializedWithinEvent ==
  \A t \in tasks :
    /\ \A k \in t.first..(t.frame - 1) :
         ~BlankText(extracted[k]) => Answers(k) # { }
    /\ \A k \in DOMAIN t.rest : ~Started(t.rest[k].n)

\* C22 witness: two tools/call came in one data event; the second awaits its
\* upstream request, and the first, whose upstream request has ended, is answered.
C22_Witness ==
  \E t \in tasks :
    /\ t.first < t.frame
    /\ OutcomeOf(t.first) # "none"
    /\ Answers(t.first) # { }

\* The number of places line n is at: its responses and the suspended listeners
\* that hold it.
Places(n) == Cardinality(Answers(n)) + Cardinality({t \in tasks : n \in Queued(t)})

\* C23: whatever chunks arrive while listeners are suspended, the lines split off
\* are the newline-terminated lines of the whole input, each once and in order;
\* no line is handled twice (answered twice, held by two listeners, or answered
\* and still held), and while stdin is open each line that is not blank is
\* answered or held by exactly one listener.
C23_BufferAtomic ==
  /\ Len(extracted) = NumNewlines(received)
  /\ extracted = Front(Split(received))
  /\ \A n \in DOMAIN extracted : Places(n) <= 1
  /\ ~closed =>
       \A n \in DOMAIN extracted : ~BlankText(extracted[n]) => Places(n) = 1

\* C23 witness: while a tools/call of an earlier chunk awaits its upstream
\* request, a line that began in one chunk and ended in a later one was answered.
C23_Witness ==
  /\ spanned
  /\ \E t \in tasks :
       \E n \in DOMAIN extracted :
         n > t.frame /\ n \notin Queued(t) /\ Answers(n) # { }

Listed == {tools[k] : k \in DOMAIN tools}

\* C25: a tools/call that names a tool tools/list returns is never answered with
\* "Unknown tool" and, given its arguments, gets its upstream request; one that
\* names any other tool is answered by a result with isError true, and no
\* upstream request is ever issued for it.
C25_RegistryMatchesDispatcher ==
  \A n \in DOMAIN extracted :
    LET m == JSONparse(extracted[n])
    IN  (IsCall(m) /\ m.params = "object") =>
          IF m.name \in Listed
            THEN /\ \A i \in Answers(n) : ~Contains(stdout[i].text, "Unknown tool: ")
                 /\ (Started(n) /\ m.arguments = "code") => \E q \in requests : q.frame = n
            ELSE /\ \A q \in requests : q.frame # n
                 /\ \A t \in tasks : t.frame # n
                 /\ \A i \in Answers(n) :
                      stdout[i].kind = "result" /\ stdout[i].isError = "true"

\* C25 witness: after tools/list, a call of the last tool of the list was
\* answered with its formatted data; the session is of the hko server.
C25_Witness ==
  /\ srv = "hko"
  /\ \E i, j \in DOMAIN stdout :
       /\ i < j /\ IsList(Trigger(stdout[i]))
       /\ Trigger(stdout[j]).name = stdout[i].tools[Len(stdout[i].tools)]
       /\ stdout[j].isError = "false"

\* C26: a tools/call without params, or whose params has no name, has exactly
\* one response once no handler is in flight: a result with isError true and the
\* id of the request, not the error -32700.
C26_CallWithoutParamsAnswered ==
  Quiescent =>
    \A n \in DOMAIN extracted :
      LET m == JSONparse(extracted[n])
      IN  (IsCall(m) /\ (m.params = "undefined" \/ m.name = "undefined")) =>
            /\ Cardinality(Answers(n)) = 1
            /\ \A i \in Answers(n) :
                 /\ stdout[i].kind = "result" /\ stdout[i].isError = "true"
                 /\ stdout[i].id = m.id
                 /\ stdout[i].code # -32700

\* The tool of the server s2 that stands for the tool `name` of the server s1:
\* the tool at the same place of the registry (counted round), and a name of no
\* registry for a name s1 does not list.
MapName(s1, s2, name) ==
  IF \E k \in DOMAIN defineTools(s1) : defineTools(s1)[k] = name
    THEN LET k == CHOOSE k \in DOMAIN defineTools(s1) : defineTools(s1)[k] = name
         IN  defineTools(s2)[((k - 1) % Len(defineTools(s2))) + 1]
    ELSE "nonexistent_tool"

\* The line F of a session of s1, as sent to s2.
MapText(s1, s2, F) ==
  [i \in DOMAIN F |-> IF F[i] \in NameTokens THEN MapName(s1, s2, F[i]) ELSE F[i]]

\* What the claim compares of a response.
Envelope(r) == [id |-> r.id, kind |-> r.kind, isError |-> r.isError, code |-> r.code]

\* What the server s answers to the text F as the first line of a session, when
\* the upstream request, if there is one, ends by outcome.
FreshAnswerOf(s, F, outcome) ==
  LET r == Run(s, << [n |-> 0, text |-> F, first |-> 0] >>, << >>, { })
  IN  IF r.susp = { }
        THEN r.out[1]
        ELSE LET t == CHOOSE t \in r.susp : TRUE
             IN  Settle(t.id, t.tool, outcome)

\* The server s suspends at the line F, awaiting an upstream request.
Suspends(s, F) == Run(s, << [n |-> 0, text |-> F, first |-> 0] >>, << >>, { }).susp # { }

C28_CliDeliversToolResult ==
  (closed /\ Len(extracted) = 3 /\ ~Rejected(3)) =>
    \E i \in Answers(3) : stdout[i].id = "3" /\ Resolved = stdout[i].text

\* RFC 7617: the user-id of a Basic header is the text before the first colon of
\* the credentials and the password is all the text after it.
ValidCredentials(auth) ==
  /\ auth.scheme = "Basic"
  /\ \E k \in DOMAIN auth.credentials :
       /\ auth.credentials[k] = ":"
       /\ \A j \in 1..(k - 1) : auth.credentials[j] # ":"
       /\ SubSeq(auth.credentials, 1, k - 1) = CONFIG_auth.username
       /\ SubSeq(auth.credentials, k + 1, Len(auth.credentials)) = CONFIG_auth.password

\* Request i made some fs call under the data directory.
TouchedFiles(i) == \E op \in fileOps : op.conn = i

\* C29: a request other than OPTIONS that carries no Basic Authorization header
\* is answered 401, one whose Basic header holds a wrong user or a wrong
\* password is answered 403, and neither reaches a route handler nor makes any
\* fs call under the data directory.
C29_NoRouteWithoutCredentials ==
  \A i \in DOMAIN conns :
    (conns[i].method # "OPTIONS" /\ ~ValidCredentials(conns[i].auth)) =>
      /\ conns[i].status = (IF conns[i].auth.scheme = "Basic" THEN 403 ELSE 401)
      /\ conns[i].route = "none"
      /\ ~TouchedFiles(i)

\* The body of request i is JSON text.
ValidJSON(i) == JSONparse(conns[i].body).type # "SyntaxError"

\* The entries of events.json that request i stored.
Stored(i) == {k \in DOMAIN events : events[k].conn = i}

\* C30: however the body chunks of the authenticated POST /api/calendars requests
\* interleave, a request whose body is valid JSON is answered 201 and has exactly
\* one entry in events.json once its body has ended, and a request whose body is
\* not valid JSON is answered 400 and has none; events.json holds nothing else.
C30_EveryPostStored ==
  /\ \A i \in DOMAIN conns :
       ~conns[i].open =>
         IF ValidJSON(i)
           THEN conns[i].status = 201 /\ Cardinality(Stored(i)) = 1
           ELSE conns[i].status = 400 /\ Stored(i) = { }
  /\ \A k \in DOMAIN events : events[k].conn \in DOMAIN conns /\ ~conns[events[k].conn].open

====
